---------------------------- MODULE Spec2Model ----------------------------
(***************************************************************************)
(* Model of the linear-probing hash table of src/src/linear_hash_table.rs  *)
(* and of the hashers of src/src/hashers.rs it is parameterised over.      *)
(*                                                                         *)
(* The struct LinearHashTable { dim, table, q, len, hasher } is the state. *)
(* Words are W bits wide instead of 64, keys are the words 0..MaxKey.      *)
(* Slot i of the Rust Vec is table[i + 1] of the TLA+ sequence.            *)
(***************************************************************************)
EXTENDS Integers, Sequences, FiniteSets, TLC

\* ------------------------------------------------------------- bounds
\* Word width of the model (u64::BITS in the source).
W == 4
\* Keys are 0..MaxKey.
MaxKey == 3
\* add is not called any more once the counter q has reached MaxQ.
MaxQ == 5

Keys == 0..MaxKey
Word == 2 ^ W

\* ------------------------------------------------------------- Entry
Nil == [tag |-> "Nil"]
Del == [tag |-> "Del"]
Val(x) == [tag |-> "Val", v |-> x]

IsVal(e) == e.tag = "Val"

\* ------------------------------------------------------------- hashers
\* Multiplicative::hash that shifts right by dim instead of W - dim.
MultiplicativeHashShiftDim(z, x, d) == ((z * x) % Word) \div (2 ^ d)

\* Multiplicative::hash: self.z.overflowing_mul(x).0 >> (u64::BITS - dim)
MultiplicativeHash(z, x, d) == ((z * x) % Word) \div (2 ^ (W - d))

\* The odd multipliers z of the Multiplicative hashers the tables are built
\* with (odd_random_range draws one per hasher).
Multipliers == {5, 11, 15}

\* The hashers a table is built with: the Multiplicative ones, and a
\* caller-supplied DimHasher that sends every key to bucket 0.
Hashers ==
    {[kind |-> "Multiplicative", z |-> z] : z \in Multipliers}
        \cup {[kind |-> "Constant", z |-> 0]}

\* The call did not return: it panicked and unwound.
Panic == [tag |-> "Panic"]

\* What a direct call of hash returned: a u64.
U64(n) == [tag |-> "U64", n |-> n]

\* The hasher was not called directly.
NoCall == [tag |-> "NoCall"]

\* The dims a caller may pass to hash, those outside 1..W included.
Dims == 0..(W + 2)

\* Multiplicative::hash for any dim, in a build with overflow checks
\* (debug, test) or without (release). For 1 <= dim <= W neither the
\* subtraction u64::BITS - dim nor the shift overflows. Otherwise the
\* subtraction (dim > W) or the shift by W bits (dim = 0) panics when
\* checked; unchecked, the difference wraps and the shift amount is masked
\* to its low bits, which makes it (W - dim) mod W.
MultiplicativeHashIn(checks, z, x, d) ==
    IF 1 <= d /\ d <= W THEN U64(MultiplicativeHash(z, x, d))
    ELSE IF checks THEN Panic
    ELSE U64(((z * x) % Word) \div (2 ^ ((2 * W - d) % W)))

\* rng.random_range(lo..hi): the values a half-open range can yield.
random_range(lo, hi) == lo..(hi - 1)

\* The draws of odd_random_range when its range is u64::MIN..u64::MAX.
OddDrawsFullRange == random_range(0, Word - 1)

\* The draws of odd_random_range: rng.random_range(u64::MIN..u64::MAX / 2).
OddDraws == random_range(0, (Word - 1) \div 2)

\* odd_random_range for the draw r: 2 * r + 1 in u64 arithmetic, which
\* panics on overflow in a build with overflow checks and wraps without.
odd_random_range(checks, r) ==
    IF 2 * r + 1 < Word THEN U64(2 * r + 1)
    ELSE IF checks THEN Panic
    ELSE U64((2 * r + 1) % Word)

\* a & b and a ^ b on unsigned words.
RECURSIVE BitAnd(_, _)
BitAnd(a, b) ==
    IF a = 0 \/ b = 0 THEN 0
    ELSE 2 * BitAnd(a \div 2, b \div 2) + ((a % 2) * (b % 2))

RECURSIVE BitXor(_, _)
BitXor(a, b) ==
    IF a = 0 THEN b
    ELSE IF b = 0 THEN a
    ELSE 2 * BitXor(a \div 2, b \div 2) + ((a + b) % 2)

\* u32::is_power_of_two
is_power_of_two(n) == \E k \in 0..n : 2 ^ k = n

\* The widths u64::BITS (and usize::BITS) is given in the Tabulation runs:
\* a power of two, as 64 is.
Bits == {b \in 1..W : is_power_of_two(b)}

\* The seeds with_seed is called with.
Seeds == 0..MaxKey

\* The n-th word the generator seeded with state yields for
\* rng.random_range(u64::MIN..u64::MAX), on words of b bits.
Draw(b, state, n) == ((2 * state + 1) * n + state) % (2 ^ b - 1)

\* Tabulation::make_tab on words of b bits: the rows, or Panic when r is no
\* power of two or 2^r does not fit in a usize.
make_tab(b, r, state) ==
    IF ~is_power_of_two(r) THEN Panic
    ELSE IF 2 ^ r >= 2 ^ b THEN Panic
    ELSE [i \in 1..(b \div r) |->
            [j \in 1..(2 ^ r) |-> Draw(b, state, (i - 1) * (2 ^ r) + j)]]

\* Tabulation::new and Tabulation::with_seed.
Tabulation(b, r, state) ==
    [kind |-> "Tabulation", bits |-> b, r |-> r, tab |-> make_tab(b, r, state)]

\* Tabulation::get without the mask u64::MAX >> u64::BITS - self.r.
get_unmasked(h, i, x) ==
    LET j == x \div (2 ^ (i * h.r)) IN
    IF j + 1 \in DOMAIN h.tab[i + 1] THEN U64(h.tab[i + 1][j + 1]) ELSE Panic

\* Tabulation::get: j = (x >> (i * r)) & (u64::MAX >> (u64::BITS - r)),
\* then self.tab[i][j], which panics when j is out of bounds.
get(h, i, x) ==
    LET j == BitAnd(x \div (2 ^ (i * h.r)),
                    (2 ^ h.bits - 1) \div (2 ^ (h.bits - h.r)))
    IN IF j + 1 \in DOMAIN h.tab[i + 1] THEN U64(h.tab[i + 1][j + 1]) ELSE Panic

\* The fold of Tabulation::hash from row i on: acc ^ get(i, x) ^ ...
RECURSIVE tabs_fold(_, _, _, _)
tabs_fold(h, x, i, acc) ==
    IF i >= Len(h.tab) THEN U64(acc)
    ELSE IF get(h, i, x) = Panic THEN Panic
    ELSE tabs_fold(h, x, i + 1, BitXor(acc, get(h, i, x).n))

\* Tabulation::hash for any dim, in a build with or without overflow
\* checks: tabs >> (u64::BITS - dim), with the overflows of the subtraction
\* and of the shift as in Multiplicative::hash.
TabulationHash(checks, h, x, d) ==
    LET tabs == tabs_fold(h, x, 0, 0) IN
    IF tabs = Panic THEN Panic
    ELSE IF 1 <= d /\ d <= h.bits THEN U64(tabs.n \div (2 ^ (h.bits - d)))
    ELSE IF checks THEN Panic
    ELSE U64(tabs.n \div (2 ^ ((2 * h.bits - d) % h.bits)))

\* Caller-supplied DimHashers that break the contract hash < 2^dim: hasher
\* z returns 2^dim for key 0 at dim = z, and the low dim bits of the key
\* everywhere else.
FaultyHashers == {[kind |-> "Faulty", z |-> d] : d \in 1..W}

\* DimHasher::hash
DimHash(h, x, d) ==
    IF h.kind = "Multiplicative" THEN MultiplicativeHash(h.z, x, d)
    ELSE IF h.kind = "Faulty" THEN (IF x = 0 /\ d = h.z THEN 2 ^ d ELSE x % (2 ^ d))
    ELSE 0

\* ------------------------------------------------------------- table
\* new_table: vec![Entry::Nil; 2usize.pow(dim)]
new_table(d) == [i \in 1..(2 ^ d) |-> Nil]

\* LinearHashTable::hash
hash(t, x) == DimHash(t.hasher, x, t.dim)

\* loop_index
loop_index(t, i) == i % Len(t.table)

\* grow_invariant_holds without the factor 2.
grow_invariant_no_factor(t) == Len(t.table) >= t.q + 1

\* grow_invariant_holds
grow_invariant_holds(t) == Len(t.table) >= 2 * (t.q + 1)

\* shrink_invariant_holds with 16 for 8.
shrink_invariant_sixteen(t) == Len(t.table) <= 16 * t.len

\* shrink_invariant_holds
shrink_invariant_holds(t) == Len(t.table) <= 8 * t.len

\* The probe loop of contains, from slot i, after n slots were visited.  A
\* loop that has visited every slot without returning never returns.
RECURSIVE contains_loop(_, _, _, _)
contains_loop(t, x, i, n) ==
    LET e == t.table[i + 1] IN
    IF n >= Len(t.table) THEN [halts |-> FALSE, found |-> FALSE, steps |-> n]
    ELSE IF IsVal(e) /\ e.v = x
        THEN [halts |-> TRUE, found |-> TRUE, steps |-> n + 1]
    ELSE IF e.tag = "Nil"
        THEN [halts |-> TRUE, found |-> FALSE, steps |-> n + 1]
    ELSE contains_loop(t, x, loop_index(t, i + 1), n + 1)

\* contains
contains(t, x) == contains_loop(t, x, hash(t, x), 0).found

\* The probe loop of insert when it also walks over Del slots.
RECURSIVE insert_loop_skips_del(_, _, _)
insert_loop_skips_del(t, i, n) ==
    IF n >= Len(t.table) THEN -1
    ELSE IF t.table[i + 1] # Nil THEN insert_loop_skips_del(t, loop_index(t, i + 1), n + 1)
    ELSE i

\* The probe loop of insert: the first slot from i that holds no Val; -1
\* when every slot holds one (the loop never ends).
RECURSIVE insert_loop(_, _, _)
insert_loop(t, i, n) ==
    IF n >= Len(t.table) THEN -1
    ELSE IF IsVal(t.table[i + 1]) THEN insert_loop(t, loop_index(t, i + 1), n + 1)
    ELSE i

\* insert: the table after the placement, and the entry that was replaced.
insert(t, x) ==
    LET i == insert_loop(t, hash(t, x), 0) IN
    [t |-> [t EXCEPT !.table[i + 1] = Val(x)], entry |-> t.table[i + 1]]

\* The search for new_dim, comparing with len instead of 3 * len.
RECURSIVE new_dim_no_factor(_, _)
new_dim_no_factor(t, new_dim) ==
    IF 2 ^ new_dim < t.len THEN new_dim_no_factor(t, new_dim + 1) ELSE new_dim

\* The new_dim loop of resize.
RECURSIVE new_dim_loop(_, _)
new_dim_loop(t, new_dim) ==
    IF 2 ^ new_dim < 3 * t.len THEN new_dim_loop(t, new_dim + 1) ELSE new_dim

\* The re-insertion loop of resize over the old array, from slot j on.
RECURSIVE reinsert_loop(_, _, _)
reinsert_loop(t, old, j) ==
    IF j > Len(old) THEN t
    ELSE IF IsVal(old[j]) THEN reinsert_loop(insert(t, old[j].v).t, old, j + 1)
    ELSE reinsert_loop(t, old, j + 1)

\* resize whose re-insertion starts at the second slot of the old array.
resize_skips_first(t) ==
    LET new_dim == new_dim_loop(t, 1) IN
    reinsert_loop([t EXCEPT !.dim = new_dim, !.table = new_table(new_dim)],
                  t.table, 2)

\* resize without the assignment self.dim = new_dim.
resize_keeps_dim(t) ==
    LET new_dim == new_dim_loop(t, 1) IN
    reinsert_loop([t EXCEPT !.table = new_table(new_dim)], t.table, 1)

\* resize
resize(t) ==
    LET new_dim == new_dim_loop(t, 1) IN
    reinsert_loop([t EXCEPT !.dim = new_dim, !.table = new_table(new_dim)],
                  t.table, 1)


\* Result<(), Error> and the other return values.
Ok == [tag |-> "Ok"]
Err(e) == [tag |-> "Err", e |-> e]
Bool(b) == [tag |-> "Bool", b |-> b]
Usize(n) == [tag |-> "Usize", n |-> n]

\* A call of resize: whether it ran, on which table, with which result.
NoResize(t) == [did |-> FALSE, before |-> t, after |-> t]
Resized(t) == [did |-> TRUE, before |-> t, after |-> resize(t)]

\* add without the contains test.
add_unchecked(t, x) ==
    LET rz == IF ~grow_invariant_holds(t) THEN Resized(t) ELSE NoResize(t)
        ins == insert(rz.after, x)
        t1 == IF ins.entry.tag = "Nil"
                THEN [ins.t EXCEPT !.q = @ + 1] ELSE ins.t
    IN [t |-> [t1 EXCEPT !.len = @ + 1], ret |-> Ok, rz |-> rz]

\* add that tests the grow invariant, and resizes, before the contains test.
add_resize_first(t, x) ==
    LET rz == IF ~grow_invariant_holds(t) THEN Resized(t) ELSE NoResize(t) IN
    IF contains(rz.after, x)
        THEN [t |-> rz.after, ret |-> Err("KeyAlreadyExists"), rz |-> rz]
    ELSE
        LET ins == insert(rz.after, x)
            t1 == IF ins.entry.tag = "Nil"
                    THEN [ins.t EXCEPT !.q = @ + 1] ELSE ins.t
        IN [t |-> [t1 EXCEPT !.len = @ + 1], ret |-> Ok, rz |-> rz]

\* add that never counts the slot it fills in q.
add_keeps_q(t, x) ==
    IF contains(t, x) THEN [t |-> t, ret |-> Err("KeyAlreadyExists"), rz |-> NoResize(t)]
    ELSE
        LET rz == IF ~grow_invariant_holds(t) THEN Resized(t) ELSE NoResize(t)
            ins == insert(rz.after, x)
        IN [t |-> [ins.t EXCEPT !.len = @ + 1], ret |-> Ok, rz |-> rz]

\* add that counts the key twice in len.
add_counts_twice(t, x) ==
    IF contains(t, x) THEN [t |-> t, ret |-> Err("KeyAlreadyExists"), rz |-> NoResize(t)]
    ELSE
        LET rz == IF ~grow_invariant_holds(t) THEN Resized(t) ELSE NoResize(t)
            ins == insert(rz.after, x)
            t1 == IF ins.entry.tag = "Nil"
                    THEN [ins.t EXCEPT !.q = @ + 1] ELSE ins.t
        IN [t |-> [t1 EXCEPT !.len = @ + 2], ret |-> Ok, rz |-> rz]

\* add: the table after the call, the value returned, the resize performed.
add(t, x) ==
    IF contains(t, x) THEN [t |-> t, ret |-> Err("KeyAlreadyExists"), rz |-> NoResize(t)]
    ELSE
        LET rz == IF ~grow_invariant_holds(t) THEN Resized(t) ELSE NoResize(t)
            ins == insert(rz.after, x)
            t1 == IF ins.entry.tag = "Nil"
                    THEN [ins.t EXCEPT !.q = @ + 1] ELSE ins.t
        IN [t |-> [t1 EXCEPT !.len = @ + 1], ret |-> Ok, rz |-> rz]

\* The probe loop of remove: the slot holding x, -1 when a Nil slot is
\* reached first, -2 when the loop never returns.
RECURSIVE remove_loop(_, _, _, _)
remove_loop(t, x, i, n) ==
    LET e == t.table[i + 1] IN
    IF n >= Len(t.table) THEN -2
    ELSE IF IsVal(e) /\ e.v = x THEN i
    ELSE IF e.tag = "Nil" THEN -1
    ELSE remove_loop(t, x, loop_index(t, i + 1), n + 1)

\* remove that writes Entry::Nil where the key was.
remove_writes_nil(t, x) ==
    LET i == remove_loop(t, x, hash(t, x), 0) IN
    IF i = -1 THEN [t |-> t, ret |-> Err("KeyNotFound"), rz |-> NoResize(t)]
    ELSE
        LET t1 == [t EXCEPT !.table[i + 1] = Nil, !.len = @ - 1]
            rz == IF ~shrink_invariant_holds(t1) THEN Resized(t1) ELSE NoResize(t1)
        IN [t |-> rz.after, ret |-> Ok, rz |-> rz]

\* remove that writes the tombstone at hash(x), where the probe started.
remove_at_home(t, x) ==
    LET i == remove_loop(t, x, hash(t, x), 0) IN
    IF i = -1 THEN [t |-> t, ret |-> Err("KeyNotFound"), rz |-> NoResize(t)]
    ELSE
        LET t1 == [t EXCEPT !.table[hash(t, x) + 1] = Del, !.len = @ - 1]
            rz == IF ~shrink_invariant_holds(t1) THEN Resized(t1) ELSE NoResize(t1)
        IN [t |-> rz.after, ret |-> Ok, rz |-> rz]

\* remove without self.len -= 1.
remove_keeps_len(t, x) ==
    LET i == remove_loop(t, x, hash(t, x), 0) IN
    IF i = -1 THEN [t |-> t, ret |-> Err("KeyNotFound"), rz |-> NoResize(t)]
    ELSE
        LET t1 == [t EXCEPT !.table[i + 1] = Del]
            rz == IF ~shrink_invariant_holds(t1) THEN Resized(t1) ELSE NoResize(t1)
        IN [t |-> rz.after, ret |-> Ok, rz |-> rz]

\* remove that tests the shrink invariant when the key is not found too.
remove_shrinks_on_miss(t, x) ==
    LET i == remove_loop(t, x, hash(t, x), 0) IN
    IF i = -1 THEN
        LET rz == IF ~shrink_invariant_holds(t) THEN Resized(t) ELSE NoResize(t)
        IN [t |-> rz.after, ret |-> Err("KeyNotFound"), rz |-> rz]
    ELSE
        LET t1 == [t EXCEPT !.table[i + 1] = Del, !.len = @ - 1]
            rz == IF ~shrink_invariant_holds(t1) THEN Resized(t1) ELSE NoResize(t1)
        IN [t |-> rz.after, ret |-> Ok, rz |-> rz]

\* remove without the shrink test.
remove_never_shrinks(t, x) ==
    LET i == remove_loop(t, x, hash(t, x), 0) IN
    IF i = -1 THEN [t |-> t, ret |-> Err("KeyNotFound"), rz |-> NoResize(t)]
    ELSE
        LET t1 == [t EXCEPT !.table[i + 1] = Del, !.len = @ - 1]
        IN [t |-> t1, ret |-> Ok, rz |-> NoResize(t1)]

\* remove
remove(t, x) ==
    LET i == remove_loop(t, x, hash(t, x), 0) IN
    IF i = -1 THEN [t |-> t, ret |-> Err("KeyNotFound"), rz |-> NoResize(t)]
    ELSE
        LET t1 == [t EXCEPT !.table[i + 1] = Del, !.len = @ - 1]
            rz == IF ~shrink_invariant_holds(t1) THEN Resized(t1) ELSE NoResize(t1)
        IN [t |-> rz.after, ret |-> Ok, rz |-> rz]

\* initialize that allocates four slots.
initialize_wide(h) == [dim |-> 1, table |-> new_table(2), q |-> 0, len |-> 0, hasher |-> h]

\* initialize
initialize(h) == [dim |-> 1, table |-> new_table(1), q |-> 0, len |-> 0, hasher |-> h]

\* ------------------------------------------------- intermediate states
\* The tables the re-insertion loop of resize goes through from slot j of
\* the old array on: t, then the table after each insert.
RECURSIVE reinsert_states(_, _, _)
reinsert_states(t, old, j) ==
    IF j > Len(old) THEN {t}
    ELSE IF IsVal(old[j])
        THEN {t} \cup reinsert_states(insert(t, old[j].v).t, old, j + 1)
    ELSE reinsert_states(t, old, j + 1)

\* The tables resize goes through: t, the new array swapped in with the new
\* dim, then the table after each re-insertion.
resize_states(t) ==
    LET new_dim == new_dim_loop(t, 1) IN
    {t} \cup reinsert_states([t EXCEPT !.dim = new_dim, !.table = new_table(new_dim)],
                             t.table, 1)

\* The tables add(x) goes through: t, those of resize when it runs, the
\* table after insert, after q += 1 and after len += 1.
add_states(t, x) ==
    IF contains(t, x) THEN {t}
    ELSE
        LET rs == IF ~grow_invariant_holds(t) THEN resize_states(t) ELSE {t}
            t0 == IF ~grow_invariant_holds(t) THEN resize(t) ELSE t
            ins == insert(t0, x)
            t1 == IF ins.entry.tag = "Nil"
                    THEN [ins.t EXCEPT !.q = @ + 1] ELSE ins.t
        IN rs \cup {ins.t, t1, [t1 EXCEPT !.len = @ + 1]}

\* The tables remove(x) goes through: t, the table with the tombstone
\* written, after len -= 1, and those of resize when it runs.
remove_states(t, x) ==
    LET i == remove_loop(t, x, hash(t, x), 0) IN
    IF i = -1 THEN {t}
    ELSE
        LET t0 == [t EXCEPT !.table[i + 1] = Del]
            t1 == [t0 EXCEPT !.len = @ - 1]
        IN {t, t0, t1} \cup
           (IF ~shrink_invariant_holds(t1) THEN resize_states(t1) ELSE {})

\* ------------------------------------------------------------- panics
\* self.table[i] with i = self.hash(x) is an index out of bounds: the first
\* slot access of contains, remove and insert panics.
OutOfRange(t, x) == hash(t, x) >= Len(t.table)

\* The re-insertion loop of resize from slot j of the old array on: the
\* table when the loop ended, and whether an insert panicked.
RECURSIVE reinsert_or_panic(_, _, _)
reinsert_or_panic(t, old, j) ==
    IF j > Len(old) THEN [t |-> t, panic |-> FALSE]
    ELSE IF IsVal(old[j]) THEN
        IF OutOfRange(t, old[j].v) THEN [t |-> t, panic |-> TRUE]
        ELSE reinsert_or_panic(insert(t, old[j].v).t, old, j + 1)
    ELSE reinsert_or_panic(t, old, j + 1)

\* resize, with the panic of an insert: self.dim is assigned and the new
\* array swapped in before the first re-insertion.
resize_or_panic(t) ==
    LET new_dim == new_dim_loop(t, 1) IN
    reinsert_or_panic([t EXCEPT !.dim = new_dim, !.table = new_table(new_dim)],
                      t.table, 1)

\* add, with the panics of contains, resize and insert: the table the call
\* leaves behind, and Panic or what it returned.
add_or_panic(t, x) ==
    IF OutOfRange(t, x) THEN [t |-> t, ret |-> Panic, rz |-> NoResize(t)]
    ELSE IF contains(t, x) \/ grow_invariant_holds(t) THEN add(t, x)
    ELSE
        LET r == resize_or_panic(t)
            rz == [did |-> TRUE, before |-> t, after |-> r.t]
        IN IF r.panic \/ OutOfRange(r.t, x)
             THEN [t |-> r.t, ret |-> Panic, rz |-> rz]
             ELSE add(t, x)

\* remove, with the panics of its first slot access and of resize.
remove_or_panic(t, x) ==
    IF OutOfRange(t, x) THEN [t |-> t, ret |-> Panic, rz |-> NoResize(t)]
    ELSE
        LET i == remove_loop(t, x, hash(t, x), 0)
            t1 == [t EXCEPT !.table[i + 1] = Del, !.len = @ - 1]
        IN IF i = -1 \/ shrink_invariant_holds(t1) THEN remove(t, x)
           ELSE
               LET r == resize_or_panic(t1)
                   rz == [did |-> TRUE, before |-> t1, after |-> r.t]
               IN IF r.panic THEN [t |-> r.t, ret |-> Panic, rz |-> rz]
                  ELSE remove(t, x)

\* iter whose index starts at 1.
iter_from_one(t) == [ref_to |-> t, index |-> 1]

\* iter
iter(t) == [ref_to |-> t, index |-> 0]

\* Iterator::next: whether an item is returned (Some), the item, and the
\* iterator after the call.
RECURSIVE next(_)
next(it) ==
    IF it.index < Len(it.ref_to.table) THEN
        LET entry == it.ref_to.table[it.index + 1]
            it1 == [it EXCEPT !.index = @ + 1]
        IN IF IsVal(entry) THEN [some |-> TRUE, x |-> entry.v, it |-> it1]
           ELSE next(it1)
    ELSE [some |-> FALSE, x |-> 0, it |-> it]

\* The items an iterator returns until it returns None.
RECURSIVE collect(_)
collect(it) ==
    LET r == next(it) IN
    IF r.some THEN <<r.x>> \o collect(r.it) ELSE <<>>

\* eq without the comparison of the lengths.
eq_no_len(a, b) ==
    LET items == collect(iter(a)) IN
    \A i \in 1..Len(items) : contains(b, items[i])

\* PartialEq::eq
eq(a, b) ==
    LET items == collect(iter(a)) IN
    /\ a.len = b.len
    /\ \A i \in 1..Len(items) : contains(b, items[i])

\* ------------------------------------------------------------- binary search tree
\* A BinarySearchTree { root, size } over a heap of nodes: nodes maps the
\* id of every node that is alive to Node { value, parent, left, right },
\* where parent, left and right are ids and None is the id 0. checks says
\* whether the build has overflow checks.

\* Option::None
None == 0

\* Node::new
Node(value) == [value |-> value, parent |-> None, left |-> None, right |-> None]

\* RefNode::new: the id of the node it allocates.
RefNode(nodes) ==
    CHOOSE i \in 1..(Cardinality(DOMAIN nodes) + 1) :
        i \notin DOMAIN nodes /\ \A j \in 1..(i - 1) : j \in DOMAIN nodes

\* RefNode::get_parent: the Weak reference upgrades to None once the parent
\* has been dropped.
get_parent(nodes, n) ==
    IF nodes[n].parent \in DOMAIN nodes THEN nodes[n].parent ELSE None

\* RefNode::is_root
is_root(nodes, n) == get_parent(nodes, n) = None

\* RefNode::is_fully_branched
is_fully_branched(nodes, n) == nodes[n].left # None /\ nodes[n].right # None

\* The nodes kept alive by the Rc references of the nodes of S: S and what
\* left and right reach from it.
RECURSIVE Alive(_, _)
Alive(nodes, S) ==
    LET R == S \ {None}
        T == (R \cup {nodes[n].left : n \in R} \cup {nodes[n].right : n \in R})
                \ {None}
    IN IF T = R THEN T ELSE Alive(nodes, T)

\* The id node n gets at the end of a call: ids name addresses, which the
\* code never looks at, so the nodes alive are renamed 1, 2, ... in the
\* order of their values (and of their old ids, where values are equal).
NewId(nodes, live, n) ==
    1 + Cardinality({m \in live :
            \/ nodes[m].value < nodes[n].value
            \/ nodes[m].value = nodes[n].value /\ m < n})

\* The reference p at the end of a call: a reference to a dropped node is
\* a Weak one and upgrades to None.
NewRef(nodes, live, p) == IF p \in live THEN NewId(nodes, live, p) ELSE None

\* The end of a call: every node that no Rc reference from the root reaches
\* is dropped.
Dropped(t) ==
    LET live == Alive(t.nodes, {t.root})
        at == [i \in 1..Cardinality(live) |->
                  CHOOSE n \in live : NewId(t.nodes, live, n) = i]
    IN [t EXCEPT
          !.root = NewRef(t.nodes, live, t.root),
          !.nodes = [i \in 1..Cardinality(live) |->
              [value |-> t.nodes[at[i]].value,
               parent |-> NewRef(t.nodes, live, t.nodes[at[i]].parent),
               left |-> NewRef(t.nodes, live, t.nodes[at[i]].left),
               right |-> NewRef(t.nodes, live, t.nodes[at[i]].right)]]]

\* No tree was created.
NoTree == [root |-> None, size |-> 0, nodes |-> <<>>, checks |-> FALSE]

\* BinarySearchTree::new
bst_new(checks) == [root |-> None, size |-> 0, nodes |-> <<>>, checks |-> checks]

\* The loop of find from node n; fuel bounds the steps, and -1 says the
\* loop never ends.
RECURSIVE find_loop(_, _, _, _)
find_loop(t, value, n, fuel) ==
    IF n = None THEN None
    ELSE IF fuel = 0 THEN -1
    ELSE IF value < t.nodes[n].value THEN find_loop(t, value, t.nodes[n].left, fuel - 1)
    ELSE IF value > t.nodes[n].value THEN find_loop(t, value, t.nodes[n].right, fuel - 1)
    ELSE n

\* BinarySearchTree::find
bst_find(t, value) == find_loop(t, value, t.root, Cardinality(DOMAIN t.nodes))

\* The loop of find_last from node n, with last_node the node seen before.
RECURSIVE find_last_loop(_, _, _, _, _)
find_last_loop(t, value, n, last_node, fuel) ==
    IF n = None THEN last_node
    ELSE IF fuel = 0 THEN -1
    ELSE IF value < t.nodes[n].value
        THEN find_last_loop(t, value, t.nodes[n].left, n, fuel - 1)
    ELSE IF value > t.nodes[n].value
        THEN find_last_loop(t, value, t.nodes[n].right, n, fuel - 1)
    ELSE n

\* BinarySearchTree::find_last
find_last(t, value) ==
    find_last_loop(t, value, t.root, None, Cardinality(DOMAIN t.nodes))

\* self.size += 1 and self.size -= 1 on a usize of W bits: the tree after
\* the assignment, or a panic where the build checks the overflow.
size_plus(t, d) ==
    IF t.size + d \in 0..(Word - 1) THEN [t |-> [t EXCEPT !.size = @ + d], panic |-> FALSE]
    ELSE IF t.checks THEN [t |-> t, panic |-> TRUE]
    ELSE [t |-> [t EXCEPT !.size = (@ + d + Word) % Word], panic |-> FALSE]

\* What a call leaves behind and returns: the tree once the references the
\* call held are dropped, and the bool returned or Panic.
Returned(r, b) ==
    [t |-> Dropped(r.t), ret |-> IF r.panic THEN Panic ELSE Bool(b)]

\* BinarySearchTree::add
bst_add(t, value) ==
    LET new_node == RefNode(t.nodes)
        last_node == find_last(t, value)
        nodes == [n \in DOMAIN t.nodes \cup {new_node} |->
                    IF n = new_node THEN Node(value) ELSE t.nodes[n]]
    IN IF last_node = None THEN
           Returned(size_plus([t EXCEPT !.root = new_node, !.nodes = nodes], 1), TRUE)
       ELSE IF value < t.nodes[last_node].value THEN
           Returned(size_plus([t EXCEPT !.nodes =
               [nodes EXCEPT ![last_node].left = new_node,
                             ![new_node].parent = last_node]], 1), TRUE)
       ELSE IF value > t.nodes[last_node].value THEN
           Returned(size_plus([t EXCEPT !.nodes =
               [nodes EXCEPT ![last_node].right = new_node,
                             ![new_node].parent = last_node]], 1), TRUE)
       ELSE [t |-> t, ret |-> Bool(FALSE)]

\* child.set_parent(parent_opt.as_ref()) for the child, if any, of a removed
\* node.
set_child_parent(nodes, child_opt, parent_opt) ==
    IF child_opt = None THEN nodes
    ELSE [nodes EXCEPT ![child_opt].parent = parent_opt]

\* BinarySearchTree::remove_partially_branched. `left == node` compares the
\* values of the two nodes.
remove_partially_branched(t, node) ==
    LET child_opt == IF t.nodes[node].left # None THEN t.nodes[node].left
                     ELSE t.nodes[node].right
    IN IF is_root(t.nodes, node) THEN
           [t EXCEPT !.root = child_opt,
                     !.nodes = set_child_parent(t.nodes, child_opt, None)]
       ELSE
           LET parent == get_parent(t.nodes, node)
               left == t.nodes[parent].left
               nodes == IF left # None THEN
                            IF t.nodes[left].value = t.nodes[node].value
                              THEN [t.nodes EXCEPT ![parent].left = child_opt]
                            ELSE t.nodes
                        ELSE [t.nodes EXCEPT ![parent].right = child_opt]
           IN [t EXCEPT !.nodes = set_child_parent(nodes, child_opt, parent)]

\* The while loop of remove_fully_branched: the leftmost node under n.
RECURSIVE min_node_loop(_, _, _)
min_node_loop(nodes, n, fuel) ==
    IF nodes[n].left = None THEN n
    ELSE IF fuel = 0 THEN -1
    ELSE min_node_loop(nodes, nodes[n].left, fuel - 1)

\* BinarySearchTree::remove_fully_branched: the tree it leaves, and whether
\* one of its expect calls panicked. into_inner_value returns None when a
\* node that is alive still holds an Rc reference to min_node.
remove_fully_branched(t, node) ==
    LET right == t.nodes[node].right
        min_node == min_node_loop(t.nodes, right, Cardinality(DOMAIN t.nodes))
        iterated == min_node # right
        last == get_parent(t.nodes, min_node)
    IN IF last = None THEN [t |-> t, panic |-> TRUE]
       ELSE
           LET nodes == IF iterated THEN [t.nodes EXCEPT ![last].left = None]
                        ELSE [t.nodes EXCEPT ![last].right = None]
               holders == {n \in Alive(nodes, {t.root, node, last}) :
                              nodes[n].left = min_node \/ nodes[n].right = min_node}
           IN IF holders # {} THEN [t |-> [t EXCEPT !.nodes = nodes], panic |-> TRUE]
              ELSE [t |-> [t EXCEPT !.nodes =
                              [nodes EXCEPT ![node].value = nodes[min_node].value]],
                    panic |-> FALSE]

\* BinarySearchTree::remove
bst_remove(t, value) ==
    LET node == bst_find(t, value) IN
    IF node = None THEN [t |-> t, ret |-> Bool(FALSE)]
    ELSE IF is_fully_branched(t.nodes, node) THEN
        LET r == remove_fully_branched(t, node) IN
        IF r.panic THEN Returned(r, TRUE) ELSE Returned(size_plus(r.t, -1), TRUE)
    ELSE Returned(size_plus(remove_partially_branched(t, node), -1), TRUE)

\* ------------------------------------------------------------- state
VARIABLES
    dim, table, q, len, hasher,  \* the fields of LinearHashTable
    op, arg, ret,                \* the last call, its key and what it returned
    old,                         \* the table (the tree, for a tree) before the
                                 \* last call
    rz,                          \* the resize the last call performed
    set,                         \* the keys added and not since removed
    twice,                       \* the last call repeats a call that returned Ok
    len0,                        \* len before that first call (before the last
                                 \* call when it repeats none)
    hcall,                       \* the last direct call of a hasher
    bst                          \* the BinarySearchTree and its nodes

vars == <<dim, table, q, len, hasher, op, arg, ret, old, rz, set, twice, len0, hcall, bst>>

Self == [dim |-> dim, table |-> table, q |-> q, len |-> len, hasher |-> hasher]

\* Assign the fields of t to the table.
Store(t) ==
    /\ dim' = t.dim
    /\ table' = t.table
    /\ q' = t.q
    /\ len' = t.len
    /\ hasher' = t.hasher

Init ==
    \E h \in Hashers :
        /\ dim = initialize(h).dim
        /\ table = initialize(h).table
        /\ q = initialize(h).q
        /\ len = initialize(h).len
        /\ hasher = initialize(h).hasher
        /\ op = "initialize"
        /\ arg = 0
        /\ ret = Ok
        /\ old = initialize(h)
        /\ rz = NoResize(initialize(h))
        /\ set = {}
        /\ twice = FALSE
        /\ len0 = 0
        /\ hcall = NoCall
        /\ bst = NoTree

\* The call o(x) comes right after the same call, which returned Ok.
Repeats(o, x) == op = o /\ arg = x /\ ret.tag = "Ok"

\* Every probe loop the call add(x) runs returns.
AddHalts(t, x) ==
    LET c == contains_loop(t, x, hash(t, x), 0)
        t1 == IF grow_invariant_holds(t) THEN t ELSE resize(t)
    IN c.halts /\ (~c.found => insert_loop(t1, hash(t1, x), 0) >= 0)

Add(x) ==
    /\ ~contains(Self, x) => q < MaxQ
    /\ AddHalts(Self, x)
    /\ \E r \in {add(Self, x)} :
        /\ Store(r.t)
        /\ ret' = r.ret
        /\ rz' = r.rz
    /\ op' = "add"
    /\ arg' = x
    /\ old' = Self
    /\ set' = set \cup {x}
    /\ twice' = Repeats("add", x)
    /\ len0' = IF Repeats("add", x) THEN old.len ELSE len
    /\ UNCHANGED <<hcall, bst>>

Remove(x) ==
    /\ remove_loop(Self, x, hash(Self, x), 0) # -2
    /\ \E r \in {remove(Self, x)} :
        /\ Store(r.t)
        /\ ret' = r.ret
        /\ rz' = r.rz
    /\ op' = "remove"
    /\ arg' = x
    /\ old' = Self
    /\ set' = set \ {x}
    /\ twice' = Repeats("remove", x)
    /\ len0' = IF Repeats("remove", x) THEN old.len ELSE len
    /\ UNCHANGED <<hcall, bst>>

Contains(x) ==
    /\ contains_loop(Self, x, hash(Self, x), 0).halts
    /\ op' = "contains"
    /\ arg' = x
    /\ ret' = Bool(contains(Self, x))
    /\ old' = Self
    /\ rz' = NoResize(Self)
    /\ twice' = FALSE
    /\ len0' = len
    /\ UNCHANGED <<dim, table, q, len, hasher, set, hcall, bst>>

LenCall ==
    /\ op' = "len"
    /\ arg' = 0
    /\ ret' = Usize(len)
    /\ old' = Self
    /\ rz' = NoResize(Self)
    /\ twice' = FALSE
    /\ len0' = len
    /\ UNCHANGED <<dim, table, q, len, hasher, set, hcall, bst>>

Next ==
    \/ \E x \in Keys : Add(x)
    \/ \E x \in Keys : Remove(x)
    \/ \E x \in Keys : Contains(x)
    \/ LenCall

Spec == Init /\ [][Next]_vars

\* The calls of a run that never removes.
NextGrow ==
    \/ \E x \in Keys : Add(x)
    \/ \E x \in Keys : Contains(x)
    \/ LenCall

\* A freshly initialized table that is only added to and queried.
SpecGrow == Init /\ [][NextGrow]_vars

\* initialize with a hasher that breaks the DimHasher contract.
InitAbort ==
    \E h \in FaultyHashers :
        /\ dim = initialize(h).dim
        /\ table = initialize(h).table
        /\ q = initialize(h).q
        /\ len = initialize(h).len
        /\ hasher = initialize(h).hasher
        /\ op = "initialize"
        /\ arg = 0
        /\ ret = Ok
        /\ old = initialize(h)
        /\ rz = NoResize(initialize(h))
        /\ set = {}
        /\ twice = FALSE
        /\ len0 = 0
        /\ hcall = NoCall
        /\ bst = NoTree

\* add(x), which may panic; no call follows a panic.
AddOrPanic(x) ==
    /\ ret # Panic
    /\ ~OutOfRange(Self, x) =>
        /\ contains_loop(Self, x, hash(Self, x), 0).halts
        /\ ~contains(Self, x) => q < MaxQ
    /\ \E r \in {add_or_panic(Self, x)} :
        /\ Store(r.t)
        /\ ret' = r.ret
        /\ rz' = r.rz
        /\ set' = IF r.ret = Panic THEN set ELSE set \cup {x}
    /\ op' = "add"
    /\ arg' = x
    /\ old' = Self
    /\ twice' = FALSE
    /\ len0' = len
    /\ UNCHANGED <<hcall, bst>>

\* remove(x), which may panic; no call follows a panic.
RemoveOrPanic(x) ==
    /\ ret # Panic
    /\ ~OutOfRange(Self, x) => remove_loop(Self, x, hash(Self, x), 0) # -2
    /\ \E r \in {remove_or_panic(Self, x)} :
        /\ Store(r.t)
        /\ ret' = r.ret
        /\ rz' = r.rz
        /\ set' = IF r.ret = Panic THEN set ELSE set \ {x}
    /\ op' = "remove"
    /\ arg' = x
    /\ old' = Self
    /\ twice' = FALSE
    /\ len0' = len
    /\ UNCHANGED <<hcall, bst>>

NextAbort ==
    \/ \E x \in Keys : AddOrPanic(x)
    \/ \E x \in Keys : RemoveOrPanic(x)

\* The table under a faulty hasher, up to the first panic.
SpecAbort == InitAbort /\ [][NextAbort]_vars

\* A Multiplicative hasher with any odd multiplier z, not yet called.
InitHash ==
    \E z \in {w \in 0..(Word - 1) : w % 2 = 1} :
        LET t == initialize([kind |-> "Multiplicative", z |-> z]) IN
        /\ dim = t.dim
        /\ table = t.table
        /\ q = t.q
        /\ len = t.len
        /\ hasher = t.hasher
        /\ op = "initialize"
        /\ arg = 0
        /\ ret = Ok
        /\ old = t
        /\ rz = NoResize(t)
        /\ set = {}
        /\ twice = FALSE
        /\ len0 = 0
        /\ hcall = NoCall
        /\ bst = NoTree

\* hasher.hash(x, d), called directly, in a build with or without overflow
\* checks.
Hash(checks, x, d) ==
    /\ hcall' = [tag |-> "Call", checks |-> checks, z |-> hasher.z, x |-> x,
                 dim |-> d, out |-> MultiplicativeHashIn(checks, hasher.z, x, d)]
    /\ UNCHANGED <<dim, table, q, len, hasher, op, arg, ret, old, rz, set, twice, len0, bst>>

NextHash == \E checks \in BOOLEAN, x \in 0..(Word - 1), d \in Dims : Hash(checks, x, d)

\* Direct calls of Multiplicative::hash with any key and any dim.
SpecHash == InitHash /\ [][NextHash]_vars

\* Multiplicative::new and Multiplicative::with_seed, in a build with or
\* without overflow checks: z is what odd_random_range makes of the draw.
InitSeed ==
    \E checks \in BOOLEAN, r \in OddDraws :
        LET z == odd_random_range(checks, r)
            h == IF z = Panic THEN [kind |-> "Constant", z |-> 0]
                 ELSE [kind |-> "Multiplicative", z |-> z.n]
            t == initialize(h)
        IN
        /\ dim = t.dim
        /\ table = t.table
        /\ q = t.q
        /\ len = t.len
        /\ hasher = t.hasher
        /\ op = "odd_random_range"
        /\ arg = r
        /\ ret = z
        /\ old = t
        /\ rz = NoResize(t)
        /\ set = {}
        /\ twice = FALSE
        /\ len0 = 0
        /\ hcall = NoCall
        /\ bst = NoTree

\* hash called on the hasher that was constructed.
HashSeeded(checks, x, d) ==
    /\ ret # Panic
    /\ Hash(checks, x, d)

NextSeed == \E checks \in BOOLEAN, x \in 0..(Word - 1), d \in Dims : HashSeeded(checks, x, d)

\* A Multiplicative hasher made by its constructors, then called.
SpecSeed == InitSeed /\ [][NextSeed]_vars

\* Tabulation::new(r) and Tabulation::with_seed(r, state) for any r, on
\* words of any of the widths.
InitTab ==
    \E b \in Bits, r \in 0..(W + 1), state \in Seeds :
        LET t == initialize([kind |-> "Constant", z |-> 0]) IN
        /\ dim = t.dim
        /\ table = t.table
        /\ q = t.q
        /\ len = t.len
        /\ hasher = Tabulation(b, r, state)
        /\ op = "make_tab"
        /\ arg = r
        /\ ret = IF make_tab(b, r, state) = Panic THEN Panic ELSE Ok
        /\ old = t
        /\ rz = NoResize(t)
        /\ set = {}
        /\ twice = FALSE
        /\ len0 = 0
        /\ hcall = NoCall
        /\ bst = NoTree

\* hasher.hash(x, d) called on the Tabulation that was constructed; twice
\* tells that the call before was the same, and out0 what it returned.
TabHash(checks, x, d) ==
    /\ ret = Ok
    /\ x < 2 ^ hasher.bits
    /\ d <= hasher.bits + 2
    /\ LET same == /\ hcall.tag = "TabCall"
                   /\ hcall.x = x
                   /\ hcall.dim = d
                   /\ hcall.checks = checks
           out == TabulationHash(checks, hasher, x, d)
       IN hcall' = [tag |-> "TabCall", checks |-> checks, x |-> x, dim |-> d,
                    out |-> out, twice |-> same,
                    out0 |-> IF same THEN hcall.out ELSE out]
    /\ UNCHANGED <<dim, table, q, len, hasher, op, arg, ret, old, rz, set, twice, len0, bst>>

NextTab == \E checks \in BOOLEAN, x \in 0..(Word - 1), d \in Dims : TabHash(checks, x, d)

\* A Tabulation hasher made by its constructors, then called.
SpecTab == InitTab /\ [][NextTab]_vars

\* BinarySearchTree::new, in a build with or without overflow checks.
InitTree ==
    \E checks \in BOOLEAN :
        LET t == initialize([kind |-> "Constant", z |-> 0]) IN
        /\ dim = t.dim
        /\ table = t.table
        /\ q = t.q
        /\ len = t.len
        /\ hasher = t.hasher
        /\ op = "new"
        /\ arg = 0
        /\ ret = Ok
        /\ old = t
        /\ rz = NoResize(t)
        /\ set = {}
        /\ twice = FALSE
        /\ len0 = 0
        /\ hcall = NoCall
        /\ bst = bst_new(checks)

\* tree.add(x); no call follows a panic, nor a size that wrapped around.
BstAdd(x) ==
    /\ ret # Panic
    /\ bst.size <= MaxKey + 1
    /\ find_last(bst, x) # -1
    /\ \E r \in {bst_add(bst, x)} :
        /\ bst' = r.t
        /\ ret' = r.ret
    /\ op' = "add"
    /\ arg' = x
    /\ old' = bst
    /\ UNCHANGED <<dim, table, q, len, hasher, rz, set, twice, len0, hcall>>

\* tree.remove(x); no call follows a panic.
BstRemove(x) ==
    /\ ret # Panic
    /\ bst.size <= MaxKey + 1
    /\ bst_find(bst, x) # -1
    /\ \E r \in {bst_remove(bst, x)} :
        /\ bst' = r.t
        /\ ret' = r.ret
    /\ op' = "remove"
    /\ arg' = x
    /\ old' = bst
    /\ UNCHANGED <<dim, table, q, len, hasher, rz, set, twice, len0, hcall>>

\* tree.find(x).is_some(); no call follows a panic.
BstFind(x) ==
    /\ ret # Panic
    /\ bst.size <= MaxKey + 1
    /\ bst_find(bst, x) # -1
    /\ op' = "find"
    /\ arg' = x
    /\ ret' = Bool(bst_find(bst, x) # None)
    /\ old' = bst
    /\ UNCHANGED <<dim, table, q, len, hasher, rz, set, twice, len0, hcall, bst>>

NextTree ==
    \/ \E x \in Keys : BstAdd(x)
    \/ \E x \in Keys : BstRemove(x)
    \/ \E x \in Keys : BstFind(x)

\* A BinarySearchTree of keys under add, remove and find.
SpecTree == InitTree /\ [][NextTree]_vars

\* ------------------------------------------------------------- claims
\* The keys held in Val slots.
KeySet(t) == {t.table[i].v : i \in {j \in 1..Len(t.table) : IsVal(t.table[j])}}

\* The number of slots that are not Nil.
NonEmpty(t) == Cardinality({i \in 1..Len(t.table) : t.table[i].tag # "Nil"})

\* Some slot holds a tombstone.
HasDel(t) == \E i \in 1..Len(t.table) : t.table[i].tag = "Del"

IsErr(r, e) == r.tag = "Err" /\ r.e = e

\* C1: the table refines a set: with `set` the keys added and not since
\* removed, add(x) returns Ok iff x was not in the set and KeyAlreadyExists
\* otherwise, remove(x) returns Ok iff x was in it and KeyNotFound otherwise,
\* contains(x) answers membership and len() the cardinality, after every call.
C1_RefinesSet ==
    [][ /\ op' = "add" =>
            IF arg' \in set THEN IsErr(ret', "KeyAlreadyExists") ELSE ret'.tag = "Ok"
        /\ op' = "remove" =>
            IF arg' \in set THEN ret'.tag = "Ok" ELSE IsErr(ret', "KeyNotFound")
        /\ op' = "contains" => ret' = Bool(arg' \in set)
        /\ op' = "len" => ret' = Usize(Cardinality(set))
        /\ \A k \in Keys : contains(Self', k) <=> k \in set'
        /\ len' = Cardinality(set')
      ]_vars

\* C1 witness: under the hasher that sends every key to one bucket, a key
\* was removed while two others stay in the table behind a tombstone.
C1_Witness ==
    /\ hasher.kind = "Constant"
    /\ op = "remove"
    /\ ret.tag = "Ok"
    /\ Cardinality(set) >= 2
    /\ HasDel(Self)

\* C2: right after add(x) contains(x) is true and right after remove(x)
\* contains(x) is false, whatever the call returned.
C2_AddRemoveThenContains ==
    /\ op = "add" => contains(Self, arg)
    /\ op = "remove" => ~contains(Self, arg)

\* C2 witness: remove(x) found x behind a tombstone on its probe path.
C2_Witness ==
    /\ op = "remove"
    /\ ret.tag = "Ok"
    /\ old.table[hash(old, arg) + 1].tag = "Del"

\* C3: add(x) of an absent key returns Ok, and the same add repeated right
\* after it returns KeyAlreadyExists and leaves len one above its value
\* before the first call.
C3_DoubleAdd ==
    /\ (op = "add" /\ arg \notin KeySet(old)) => ret.tag = "Ok"
    /\ (op = "add" /\ twice) => IsErr(ret, "KeyAlreadyExists") /\ len = len0 + 1

\* C3 witness: the second of two add(x) in a row, on a table that held
\* another key before the first.
C3_Witness ==
    /\ op = "add"
    /\ twice
    /\ ret.tag = "Err"
    /\ len0 >= 1

\* C4: remove(x) of a present key returns Ok, and the same remove repeated
\* right after it returns KeyNotFound and leaves len one below its value
\* before the first call.
C4_DoubleRemove ==
    /\ (op = "remove" /\ arg \in KeySet(old)) => ret.tag = "Ok"
    /\ (op = "remove" /\ twice) => IsErr(ret, "KeyNotFound") /\ len = len0 - 1

\* C4 witness: the second of two remove(x) in a row probes over the
\* tombstone the first one left.
C4_Witness ==
    /\ op = "remove"
    /\ twice
    /\ ret.tag = "Err"
    /\ table[hash(Self, arg) + 1].tag = "Del"

\* C5: an add that returns KeyAlreadyExists leaves dim, table, q and len as
\* they were and performs no resize.
C5_AddErrUnmodified ==
    (op = "add" /\ IsErr(ret, "KeyAlreadyExists")) =>
        /\ dim = old.dim
        /\ table = old.table
        /\ q = old.q
        /\ len = old.len
        /\ ~rz.did

\* C5 witness: add of a present key on a table whose grow test fails.
C5_Witness ==
    /\ op = "add"
    /\ IsErr(ret, "KeyAlreadyExists")
    /\ ~grow_invariant_holds(old)

\* C6: a remove that returns KeyNotFound leaves dim, table, q and len as
\* they were, writes no tombstone and performs no resize.
C6_RemoveErrUnmodified ==
    (op = "remove" /\ IsErr(ret, "KeyNotFound")) =>
        /\ dim = old.dim
        /\ table = old.table
        /\ q = old.q
        /\ len = old.len
        /\ ~rz.did

\* C6 witness: remove of an absent key on a table whose shrink test fails.
C6_Witness ==
    /\ op = "remove"
    /\ IsErr(ret, "KeyNotFound")
    /\ ~shrink_invariant_holds(old)

\* C7: every resize leaves the key set, the answer of contains for every
\* key and len as they were right before it.
C7_ResizeTransparent ==
    rz.did =>
        /\ KeySet(rz.after) = KeySet(rz.before)
        /\ \A k \in Keys : contains(rz.after, k) <=> contains(rz.before, k)
        /\ rz.after.len = rz.before.len

\* C7 witness: a remove shrank a table that keeps a live key and held
\* several tombstones.
C7_Witness ==
    /\ rz.did
    /\ op = "remove"
    /\ rz.after.len >= 1
    /\ Len(rz.after.table) < Len(rz.before.table)
    /\ NonEmpty(rz.before) > rz.before.len + 1

\* C8 as stated: after every completed call the table has at least
\* 2 * (q + 1) slots.
C8_GrowInvariantOnCounter == Len(table) >= 2 * (q + 1)

\* C8 amended: after every completed call the table has at least twice as
\* many slots as it has slots that are not Nil.
C8_HalfLoad == Len(table) >= 2 * NonEmpty(Self)

\* C8 witness: an add filled the table to exactly one half without resizing.
C8_Witness ==
    /\ op = "add"
    /\ ret.tag = "Ok"
    /\ ~rz.did
    /\ Len(table) = 2 * NonEmpty(Self)
    /\ Len(table) >= 4

\* C9 as stated: after every completed call the table has at most 8 * len
\* slots.
C9_ShrinkInvariantAlways == Len(table) <= 8 * len

\* C9 amended: after every completed call the table has at most 8 * len
\* slots when it holds a key, and exactly two slots when it holds none.
C9_ShrinkInvariantLive ==
    /\ len >= 1 => Len(table) <= 8 * len
    /\ len = 0 => Len(table) = 2

\* C9 witness: a remove left a live key in a table that was more than
\* eight times too large and shrank it.
C9_Witness ==
    /\ op = "remove"
    /\ rz.did
    /\ len >= 1
    /\ Len(rz.before.table) > 8 * len

\* C10: dim is at least 1 and the table has exactly 2^dim slots.
C10_LenIsPow2Dim == dim >= 1 /\ Len(table) = 2 ^ dim

\* C10 witness: a resize changed dim to 3 or more.
C10_Witness ==
    /\ rz.did
    /\ dim # old.dim
    /\ dim >= 3

\* C11: for every key, the probe loop of contains, the probe loop of remove
\* and the placement loop of add (after the resize add performs, if any)
\* return, each after visiting at most as many slots as the table has.
C11_ProbesTerminate ==
    \A x \in Keys :
        /\ contains_loop(Self, x, hash(Self, x), 0).halts
        /\ contains_loop(Self, x, hash(Self, x), 0).steps <= Len(table)
        /\ remove_loop(Self, x, hash(Self, x), 0) # -2
        /\ insert_loop(Self, hash(Self, x), 0) >= 0
        /\ AddHalts(Self, x)

\* C11 witness: a contains call visited three slots or more and wrapped
\* around the end of the array.
C11_Witness ==
    /\ op = "contains"
    /\ contains_loop(old, arg, hash(old, arg), 0).steps >= 3
    /\ hash(old, arg) + contains_loop(old, arg, hash(old, arg), 0).steps > Len(table)

\* The least key of a non-empty set of keys.
Least(S) == CHOOSE x \in S : \A y \in S : x <= y

\* The table after add was called for every key of S, in increasing order.
RECURSIVE AddAll(_, _)
AddAll(t, S) ==
    IF S = {} THEN t ELSE AddAll(add(t, Least(S)).t, S \ {Least(S)})

\* S with its least key replaced by the least key not in S (S itself when
\* there is no such pair).
Swapped(S) ==
    IF S = {} \/ S = Keys THEN S
    ELSE (S \ {Least(S)}) \cup {Least(Keys \ S)}

\* The table a, which holds S, after a key not in S was added and removed
\* again (when S is all keys: after its least key was removed and added
\* again): it holds S and a tombstone.
WithTombstone(a, S) ==
    IF S # Keys THEN remove(add(a, Least(Keys \ S)).t, Least(Keys \ S)).t
    ELSE add(remove(a, Least(S)).t, Least(S)).t

\* The table a, which holds S, after its least key was removed and the
\* least key not in S added: it holds Swapped(S).
Exchanged(a, S) ==
    IF S = {} \/ S = Keys THEN a
    ELSE add(remove(a, Least(S)).t, Least(Keys \ S)).t

\* The hashers of the tables a table is compared with.
OtherHashers == {[kind |-> "Multiplicative", z |-> 5], [kind |-> "Constant", z |-> 0]}

\* Tables to compare a table holding S with, for each of OtherHashers: the
\* table a built by adding S to a fresh table, WithTombstone(a, S) and
\* Exchanged(a, S).
Built(S) ==
    UNION {{[t |-> a, keys |-> S],
            [t |-> WithTombstone(a, S), keys |-> S],
            [t |-> Exchanged(a, S), keys |-> Swapped(S)]} :
                a \in {AddAll(initialize(h), S) : h \in OtherHashers}}

\* C12: every table, as it is after initialize or after the add or remove
\* that produced it, compares equal to another table, in either order, iff
\* both hold the same keys: against the tables of Built (any hasher, other
\* capacities, with and without tombstones) and against the table before
\* the call; and it compares equal to itself.
C12_EqIsExtensional ==
    (op \in {"initialize", "add", "remove"} /\ ret.tag = "Ok") =>
        /\ \A b \in Built(set) :
            /\ eq(Self, b.t) <=> set = b.keys
            /\ eq(b.t, Self) <=> set = b.keys
        /\ eq(Self, old) <=> set = KeySet(old)
        /\ eq(old, Self) <=> set = KeySet(old)
        /\ eq(Self, Self)

\* C12 witness: the table holds two keys and a tombstone and compares equal
\* to a table built with another hasher and of another capacity.
C12_Witness ==
    /\ op = "remove"
    /\ ret.tag = "Ok"
    /\ len >= 2
    /\ HasDel(Self)
    /\ \E b \in Built(set) :
        /\ b.t.hasher # hasher
        /\ Len(b.t.table) # Len(table)
        /\ eq(Self, b.t)

\* C13: iter() returns the keys of the Val slots in increasing slot order,
\* each key once, len of them, exactly the keys held, and then None.
C13_IterYieldsOccupied ==
    LET s == collect(iter(Self))
        vals == SelectSeq(table, IsVal)
    IN
    /\ s = [i \in 1..Len(vals) |-> vals[i].v]
    /\ Len(s) = len
    /\ \A i, j \in 1..Len(s) : i # j => s[i] # s[j]
    /\ {s[i] : i \in 1..Len(s)} = set
    /\ ~next([ref_to |-> Self, index |-> Len(table)]).some

\* C13 witness: the table holds two keys or more and a tombstone, and its
\* first slot holds no key.
C13_Witness ==
    /\ len >= 2
    /\ HasDel(Self)
    /\ ~IsVal(table[1])

\* C14: the table initialize returns has dim = 1, exactly two slots, both
\* Nil, q = 0 and len = 0; len() is 0 and contains(x) is false for every x.
C14_InitializeIsEmpty ==
    op = "initialize" =>
        /\ dim = 1
        /\ Len(table) = 2
        /\ \A i \in 1..Len(table) : table[i] = Nil
        /\ q = 0
        /\ len = 0
        /\ Self = initialize(hasher)
        /\ \A x \in Keys : ~contains(Self, x)

\* The table as initialize returned it, with a multiplicative hasher.
C14_Witness == op = "initialize" /\ hasher.kind = "Multiplicative"

\* C16: when a remove resized the table, the add of an absent key that
\* comes right after it does not resize it again.
C16_NoResizeAfterShrink ==
    [][(op = "remove" /\ ret.tag = "Ok" /\ rz.did /\ op' = "add" /\ ret'.tag = "Ok")
        => ~rz'.did]_vars

\* C17: whenever adds and removes leave n >= 1 keys in the table, each of
\* them is found by contains and the table has at most 8 * n slots.
C17_ShrinkBoundLiveKeys ==
    Cardinality(set) >= 1 =>
        /\ \A k \in set : contains(Self, k)
        /\ \A k \in Keys \ set : ~contains(Self, k)
        /\ Len(table) <= 8 * Cardinality(set)

\* C17 witness: removes took all keys but one out of a table that grew to
\* eight slots; the key left is found and the bound is met with equality.
C17_Witness ==
    /\ op = "remove"
    /\ ret.tag = "Ok"
    /\ Cardinality(set) = 1
    /\ Len(table) = 8
    /\ \A k \in set : contains(Self, k)

\* C18: on a table that was initialized and never removed from, the add of
\* a key not yet added returns Ok, len is the number of distinct keys
\* added, contains finds each of them, dim > 1 once two keys were added,
\* and no call decreases dim.
C18_GrowthFromFresh ==
    /\ (op = "add" /\ arg \notin KeySet(old)) => ret = Ok
    /\ len = Cardinality(set)
    /\ op = "len" => ret = Usize(Cardinality(set))
    /\ \A k \in set : contains(Self, k)
    /\ Cardinality(set) >= 2 => dim > 1
    /\ dim >= old.dim

\* C18 witness: every key was added, the last add returned Ok, and the
\* table has grown.
C18_Witness ==
    /\ op = "add"
    /\ ret = Ok
    /\ set = Keys
    /\ len = MaxKey + 1
    /\ dim > 1

\* Slot number k of the probe sequence of x in t, counted from 0.
Probe(t, x, k) == (hash(t, x) + k) % Len(t.table)

\* The add of arg wrote slot Probe(Self, arg, k): it left every other slot
\* as the resize, if any, had left it, the k slots probed before held
\* keys, and the slot written did not.
PlacedAt(k) ==
    /\ table[Probe(Self, arg, k) + 1] = Val(arg)
    /\ ~IsVal(rz.after.table[Probe(Self, arg, k) + 1])
    /\ \A j \in 0..(k - 1) : IsVal(rz.after.table[Probe(Self, arg, j) + 1])
    /\ \A i \in 1..Len(table) :
        i # Probe(Self, arg, k) + 1 => table[i] = rz.after.table[i]

\* C19: an add that returns Ok stores the key in the first slot that holds
\* no key, in the cyclic order hash(x), hash(x) + 1, ... with the hash
\* taken at the dim in force after any resize of the add; when the add is
\* the second on a fresh table and both keys hash to the same slot h at the
\* resulting dim, the first key is in slot h, the second in the next slot,
\* and contains finds both.
C19_LinearProbePlacement ==
    (op = "add" /\ ret = Ok) =>
        /\ Len(rz.after.table) = Len(table)
        /\ rz.after.dim = dim
        /\ \E k \in 0..(Len(table) - 1) : PlacedAt(k)
        /\ (old.len = 1 /\ old.q = 1) =>
            \A x \in KeySet(old) :
                hash(Self, x) = hash(Self, arg) =>
                    /\ table[hash(Self, x) + 1] = Val(x)
                    /\ table[loop_index(Self, hash(Self, x) + 1) + 1] = Val(arg)
                    /\ contains(Self, x)
                    /\ contains(Self, arg)

\* C19 witness: the second add on a fresh table, under a multiplicative
\* hasher, of a key that hashes to the slot of the first.
C19_Witness ==
    /\ op = "add"
    /\ ret = Ok
    /\ old.len = 1
    /\ old.q = 1
    /\ hasher.kind = "Multiplicative"
    /\ \E x \in KeySet(old) : hash(Self, x) = hash(Self, arg)
    /\ PlacedAt(1)

\* C15: a call of add or remove that aborts has changed no field of the
\* table: dim, table, q and len are as before the call.
C15_AbortsBeforeAnyChange == ret = Panic => Self = old

\* C20: Multiplicative::hash called with dim = 0 or dim > W panics and
\* returns no value.
C20_BadDimPanics ==
    (hcall.tag = "Call" /\ (hcall.dim = 0 \/ hcall.dim > W)) => hcall.out = Panic

\* C21: for every key x, odd multiplier z and dim in 1..W,
\* Multiplicative::hash(x, dim) returns ((z * x) mod 2^W) shifted right by
\* W - dim bits, the same value in every build, and the value is in
\* [0, 2^dim), an index into the 2^dim slots of a table of that dim.
C21_MultiplicativeHashInRange ==
    (hcall.tag = "Call" /\ 1 <= hcall.dim /\ hcall.dim <= W) =>
        /\ hcall.out = U64(((hcall.z * hcall.x) % (2 ^ W)) \div (2 ^ (W - hcall.dim)))
        /\ hcall.out = MultiplicativeHashIn(~hcall.checks, hcall.z, hcall.x, hcall.dim)
        /\ hcall.out.n >= 0
        /\ hcall.out.n < 2 ^ hcall.dim
        /\ hcall.out.n + 1 \in DOMAIN new_table(hcall.dim)
        /\ hcall.out.n = hash([initialize(hasher) EXCEPT !.dim = hcall.dim], hcall.x)

\* C21 witness: a call with the largest key and 1 < dim < W that returns
\* the last index, 2^dim - 1.
C21_Witness ==
    /\ hcall.tag = "Call"
    /\ hcall.x = Word - 1
    /\ 1 < hcall.dim
    /\ hcall.dim < W
    /\ hcall.out = U64(2 ^ hcall.dim - 1)

\* C22: after BinarySearchTree::remove(v) returned true, find(v) returns
\* None and another remove(v) returns false.
C22_RemoveRemoves ==
    (op = "remove" /\ ret = Bool(TRUE)) =>
        /\ bst_find(bst, arg) = None
        /\ bst_remove(bst, arg).ret = Bool(FALSE)

\* The number of slots of t that hold a key, and that hold a tombstone.
Occupied(t) == Cardinality({i \in 1..Len(t.table) : IsVal(t.table[i])})
Tombstones(t) == Cardinality({i \in 1..Len(t.table) : t.table[i] = Del})

\* C23: after every completed call q is the number of slots that are not
\* Nil.
C23_QCountsNonEmpty == q = Occupied(Self) + Tombstones(Self)

\* C24: after every completed call q <= slots.length.
C24_QAtMostCapacity == q <= Len(table)

\* C25: after every completed call len <= q.
C25_LenAtMostQ == len <= q

\* C25 witness: an add put a key into a tombstone, which left q as it was
\* and made len equal to it.
C25_Witness ==
    /\ op = "add"
    /\ ret = Ok
    /\ ~rz.did
    /\ q = old.q
    /\ len = q
    /\ Tombstones(old) = Tombstones(Self) + 1

\* C26: after every completed call len, the value len() returns, is the
\* number of slots that hold a key, and it is not negative.
C26_LenCountsOccupied ==
    /\ len = Occupied(Self)
    /\ len >= 0
    /\ op = "len" => ret = Usize(Occupied(Self))

\* C26 witness: a remove of a key that is not there, on a table all of
\* whose keys were removed: len stays 0.
C26_Witness ==
    /\ op = "remove"
    /\ IsErr(ret, "KeyNotFound")
    /\ len = 0
    /\ old.len = 0
    /\ q > 0

\* C27: after every add that returned Ok and after every remove, the slots
\* that hold a key or a tombstone are at most half of the slots.
C27_LoadFactor ==
    ((op = "add" /\ ret = Ok) \/ op = "remove") =>
        2 * (Occupied(Self) + Tombstones(Self)) <= Len(table)

\* C27 witness: an add that resized nothing filled the table to exactly
\* half, tombstones included.
C27_Witness ==
    /\ op = "add"
    /\ ret = Ok
    /\ ~rz.did
    /\ Tombstones(Self) >= 1
    /\ 2 * (Occupied(Self) + Tombstones(Self)) = Len(table)

\* The smallest d >= 1 with 2^d >= n.
SmallestDim(n) ==
    CHOOSE d \in 1..(W + 2) : 2 ^ d >= n /\ \A e \in 1..(d - 1) : 2 ^ e < n

C29_ShrinkTarget ==
    (op = "remove" /\ rz.did) =>
        /\ len = old.len - 1
        /\ rz.before.len = len
        /\ dim = SmallestDim(3 * len)
        /\ \A d \in 1..(dim - 1) : 2 ^ d < 3 * len
        /\ Len(table) = 2 ^ dim

\* C29 witness: a remove shrank a table of dim 4 around its last key, to
\* dim 2.
C29_Witness ==
    /\ op = "remove"
    /\ rz.did
    /\ old.dim = 4
    /\ len = 1
    /\ dim = 2

C31_ResizeRecomputesQ ==
    rz.did =>
        /\ rz.after.q = Occupied(rz.after)
        /\ rz.after.q = rz.after.len
        /\ rz.after.len = rz.before.len

\* The slots of t.table whose entry differs from the one in u.table.
Changed(t, u) == {i \in 1..Len(t.table) : t.table[i] # u.table[i]}

\* C32: right after every resize no slot holds Del: every slot holds Nil or
\* a Val, and the Vals are exactly the keys the array held before, each
\* once.
C32_ResizeDropsTombstones ==
    rz.did =>
        /\ \A i \in 1..Len(rz.after.table) :
              rz.after.table[i] = Nil \/ IsVal(rz.after.table[i])
        /\ Tombstones(rz.after) = 0
        /\ KeySet(rz.after) = KeySet(rz.before)
        /\ Occupied(rz.after) = Occupied(rz.before)

\* C32 witness: an add rebuilt a table that held a key and two tombstones.
C32_Witness ==
    /\ op = "add"
    /\ rz.did
    /\ Tombstones(rz.before) >= 2
    /\ Occupied(rz.before) >= 1
    /\ Tombstones(rz.after) = 0

\* C33: an add that returns Ok without resizing adds 1 to len, changes
\* exactly one slot, into Val(x), and leaves dim as it was; q grows by 1
\* when that slot held Nil and stays when it held Del.
C33_AddFrame ==
    (op = "add" /\ ret = Ok /\ ~rz.did) =>
        /\ len = old.len + 1
        /\ dim = old.dim
        /\ Len(table) = Len(old.table)
        /\ Cardinality(Changed(Self, old)) = 1
        /\ \A i \in Changed(Self, old) :
              /\ table[i] = Val(arg)
              /\ old.table[i] = Nil => q = old.q + 1
              /\ old.table[i] = Del => q = old.q
              /\ old.table[i] \in {Nil, Del}

\* C33 witness: an add put its key in a tombstone and q stayed, in a table
\* that holds another key.
C33_Witness ==
    /\ op = "add"
    /\ ret = Ok
    /\ ~rz.did
    /\ q = old.q
    /\ len = old.len + 1
    /\ len >= 2
    /\ \E i \in Changed(Self, old) : old.table[i] = Del

\* C34: a remove that returns Ok without resizing changes exactly one slot,
\* from Val(x) to Del, and takes 1 from len; dim, q and the other slots
\* stay, so no slot goes back to Nil.
C34_RemoveFrame ==
    (op = "remove" /\ ret = Ok /\ ~rz.did) =>
        /\ len = old.len - 1
        /\ dim = old.dim
        /\ q = old.q
        /\ Len(table) = Len(old.table)
        /\ Cardinality(Changed(Self, old)) = 1
        /\ \A i \in Changed(Self, old) :
              old.table[i] = Val(arg) /\ table[i] = Del
        /\ \A i \in 1..Len(table) : table[i] = Nil => old.table[i] = Nil

\* C34 witness: a remove without resize left a tombstone in front of a key
\* that stays.
C34_Witness ==
    /\ op = "remove"
    /\ ret = Ok
    /\ ~rz.did
    /\ len >= 1
    /\ \E i \in Changed(Self, old) :
          i < Len(table) /\ IsVal(table[i + 1])

\* The tables the last call went through, the one it started from and the
\* one it left included.
Steps ==
    IF op = "add" THEN add_states(old, arg)
    ELSE IF op = "remove" THEN remove_states(old, arg)
    ELSE {Self}

\* C35: every table a call goes through, between the resize and the
\* placement inside add and during the re-insertions of resize included,
\* has a Nil slot, and the probe of contains from any key's slot returns.
C35_AlwaysAnEmptySlot ==
    /\ Self \in Steps
    /\ \A t \in Steps :
          /\ \E i \in 1..Len(t.table) : t.table[i] = Nil
          /\ Len(t.table) = 2 ^ t.dim
          /\ \A k \in Keys :
                LET c == contains_loop(t, k, hash(t, k), 0) IN
                c.halts /\ (~c.found => t.table[((hash(t, k) + c.steps - 1) % Len(t.table)) + 1] = Nil)

\* C35 witness: an add resized a table with a tombstone, re-inserted two
\* keys or more, one at a time, and placed its own.
C35_Witness ==
    /\ op = "add"
    /\ ret = Ok
    /\ rz.did
    /\ old.len >= 2
    /\ Tombstones(old) >= 1
    /\ Cardinality(Steps) >= 6
    /\ rz.after \in Steps
    /\ \E t \in Steps : Occupied(t) = 1 /\ t.dim = dim

\* The number of slots from the slot hash(k) of key k to slot i (counted
\* from 1), going forward with wraparound.
Ahead(t, k, i) == ((i - 1) - hash(t, k)) % Len(t.table)

\* No slot from hash(k) up to, but without, the slot i that holds k is Nil.
ChainHolds(t) ==
    \A i \in 1..Len(t.table) :
        IsVal(t.table[i]) =>
            \A e \in 0..(Ahead(t, t.table[i].v, i) - 1) :
                t.table[Probe(t, t.table[i].v, e) + 1] # Nil

\* C36: in every table a call leaves or goes through, no slot between the
\* slot hash(k) of a stored key k and the slot that holds k is Nil, so
\* contains finds every stored key.
C36_ProbeChain ==
    /\ ChainHolds(Self)
    /\ \A t \in Steps : ChainHolds(t)
    /\ \A k \in KeySet(Self) : contains(Self, k)

\* C36 witness: a key is stored two slots or more after its slot hash(k),
\* behind a tombstone.
C36_Witness ==
    \E i \in 1..Len(table) :
        /\ IsVal(table[i])
        /\ Ahead(Self, table[i].v, i) >= 2
        /\ \E e \in 0..(Ahead(Self, table[i].v, i) - 1) :
              table[Probe(Self, table[i].v, e) + 1] = Del

\* Each key is held by one slot at most.
NoDuplicates(t) ==
    \A i, j \in 1..Len(t.table) :
        (IsVal(t.table[i]) /\ t.table[i] = t.table[j]) => i = j

\* C37: in every table a call leaves or goes through, no two slots hold
\* the same key.
C37_NoDuplicates ==
    /\ NoDuplicates(Self)
    /\ Occupied(Self) = Cardinality(KeySet(Self))
    /\ \A t \in Steps : NoDuplicates(t)

\* C37 witness: an add wrote its key over a tombstone that is followed, in
\* the same cluster, by a slot holding another key.
C37_Witness ==
    /\ op = "add"
    /\ ret = Ok
    /\ ~rz.did
    /\ \E i \in Changed(Self, old) :
          /\ old.table[i] = Del
          /\ table[i] = Val(arg)
          /\ IsVal(table[(i % Len(table)) + 1])
          /\ Ahead(Self, table[(i % Len(table)) + 1].v, (i % Len(table)) + 1) >= 1

\* C39: the multiplier z of every Multiplicative hasher its constructors
\* make is odd: z = 2 * r + 1 for a draw r with 0 <= r < (2^W - 1) div 2,
\* computed without overflow, so z <= 2^W - 1, in every build.
C39_MultiplierIsOdd ==
    op = "odd_random_range" =>
        /\ 0 <= arg
        /\ arg < (2 ^ W - 1) \div 2
        /\ ret = U64(2 * arg + 1)
        /\ ret.n <= 2 ^ W - 1
        /\ ret.n % 2 = 1
        /\ hasher = [kind |-> "Multiplicative", z |-> 2 * arg + 1]
        /\ hasher.z % 2 = 1

\* C39 witness: the hasher made from the largest draw was called.
C39_Witness ==
    /\ op = "odd_random_range"
    /\ arg = (2 ^ W - 1) \div 2 - 1
    /\ hasher.z = 2 ^ W - 3
    /\ hcall.tag = "Call"
    /\ hcall.z = hasher.z

\* Bit k of the word n.
Bit(n, k) == (n \div (2 ^ k)) % 2

\* The i-th digit of r bits of the key of the last call.
Digit(i) == (hcall.x \div (2 ^ (i * hasher.r))) % (2 ^ hasher.r)

\* The XOR, bit by bit, of the entries the digits select, one per row.
XorOfRows ==
    LET on(k) == {i \in 1..Len(hasher.tab) :
                    Bit(hasher.tab[i][Digit(i - 1) + 1], k) = 1}
        bit(k) == (2 ^ k) * (Cardinality(on(k)) % 2)
        RECURSIVE sum(_)
        sum(k) == IF k < 0 THEN 0 ELSE bit(k) + sum(k - 1)
    IN sum(hasher.bits - 1)

\* C38: a Tabulation made with an accepted r, a power of two, has
\* ceil(W / r) rows of 2^r entries; each digit of a key is below 2^r, so
\* within its row, and the digits cover every bit of the key; hash(x, dim)
\* is the XOR of the entries the digits select, one per row, shifted right
\* by W - dim; a repeated call returns the same value.
C38_TabulationHash ==
    (op = "make_tab" /\ ret = Ok) =>
        /\ is_power_of_two(hasher.r)
        /\ Len(hasher.tab) = (hasher.bits + hasher.r - 1) \div hasher.r
        /\ \A i \in 1..Len(hasher.tab) : Len(hasher.tab[i]) = 2 ^ hasher.r
        /\ hcall.tag = "TabCall" =>
              /\ \A i \in 0..(Len(hasher.tab) - 1) :
                    /\ Digit(i) < 2 ^ hasher.r
                    /\ Digit(i) + 1 \in DOMAIN hasher.tab[i + 1]
                    /\ get(hasher, i, hcall.x) = U64(hasher.tab[i + 1][Digit(i) + 1])
              /\ \A k \in 0..(hasher.bits - 1) :
                    /\ k \div hasher.r < Len(hasher.tab)
                    /\ Bit(hcall.x, k) = Bit(Digit(k \div hasher.r), k % hasher.r)
              /\ (1 <= hcall.dim /\ hcall.dim <= hasher.bits) =>
                    /\ hcall.out = U64(XorOfRows \div (2 ^ (hasher.bits - hcall.dim)))
                    /\ hcall.out.n < 2 ^ hcall.dim
              /\ hcall.twice => hcall.out = hcall.out0

\* C38 witness: a Tabulation of several rows was called twice with a key
\* whose digits differ and the second call returned a non-zero hash.
C38_Witness ==
    /\ op = "make_tab"
    /\ ret = Ok
    /\ hasher.r > 1
    /\ Len(hasher.tab) > 1
    /\ hcall.tag = "TabCall"
    /\ hcall.twice
    /\ Digit(0) # Digit(1)
    /\ Digit(1) > 0
    /\ 1 < hcall.dim
    /\ hcall.dim < hasher.bits
    /\ hcall.out.n > 0

\* The values the nodes of the tree t hold.
Stored(t) == {t.nodes[n].value : n \in DOMAIN t.nodes}

\* C40: after BinarySearchTree::remove(v) returned true, find still finds
\* every other value it found before, and size is one less than before and
\* is the number of values the tree holds.
C40_RemoveRemovesOnlyV ==
    (op = "remove" /\ ret = Bool(TRUE)) =>
        /\ \A w \in Keys \ {arg} :
              bst_find(old, w) # None => bst_find(bst, w) # None
        /\ bst.size = old.size - 1
        /\ bst.size = Cardinality(Stored(bst))

=============================================================================
